---- MODULE Spec2Model ----
(***************************************************************************)
(* mediathekview-cli (src/help.js, the index.js part from line 33 on).     *)
(*                                                                         *)
(* The program is one Node.js process.  Every callback (a socket event     *)
(* handler, the continuation of an await, a prompt answer, a stream event) *)
(* runs to its next await without interruption, so each action below is    *)
(* one such callback run.  The socket.io transport, the HTTP backend, the  *)
(* operator at the terminal and the `which`/`mpv` subprocesses are the     *)
(* environment: their answers are drawn with \E from bounded sets.         *)
(*                                                                         *)
(* JavaScript strings are sequences of one-character strings, so that      *)
(* split, trim, toLowerCase and parseInt are computed, not assumed.  The   *)
(* non-string values undefined, null and true are the one-element          *)
(* sequences Undefined, Null and True, which no character string equals.   *)
(***************************************************************************)
EXTENDS Integers, Sequences, FiniteSets, TLC

\* ------------------------------------------------------------- bounds
\* How often the transport may fire 'connect' in one run (the first
\* connection and the successful reconnections).
MaxConnects == 2
\* Length of the longest result sequence the backend replies with in Spec.
MaxResults == 1
\* Length of the longest result sequence the backend replies with in SpecSearch.
MaxSearchResults == 3
\* How many 'data' events of one response body are followed.
MaxChunks == 3
\* Length of the longest output path in the configuration file in SpecConfig.
MaxPathLen == 3

\* ------------------------------------------------------------- values
Undefined == <<"undefined">>
Null == <<"null">>
True == <<"true">>

\* JavaScript truthiness of a string-or-undefined-or-null-or-true value.
Truthy(v) == v # Undefined /\ v # Null /\ v # <<>>

\* io(options.server, {..., reconnectionAttempts: 5})
reconnectionAttempts == 5

\* NaN, the result of parseInt on a string that starts with no digit.
NaN == -1

\* Channel names and other strings the runs use.
ARD == <<"A", "R", "D">>
ZDF == <<"Z", "D", "F">>

HD == <<"h", "d">>
MEDIUM == <<"m", "e", "d", "i", "u", "m">>
LOW == <<"l", "o", "w">>

\* ------------------------------------------------------------- strings
Upper == <<"A", "B", "C", "D", "E", "F", "G", "H", "I", "J", "K", "L", "M",
           "N", "O", "P", "Q", "R", "S", "T", "U", "V", "W", "X", "Y", "Z">>
Lower == <<"a", "b", "c", "d", "e", "f", "g", "h", "i", "j", "k", "l", "m",
           "n", "o", "p", "q", "r", "s", "t", "u", "v", "w", "x", "y", "z">>
Digits == <<"0", "1", "2", "3", "4", "5", "6", "7", "8", "9">>

\* String.prototype.toLowerCase, one character.
lowerChar(c) ==
    IF \E k \in 1..Len(Upper) : Upper[k] = c
    THEN Lower[CHOOSE k \in 1..Len(Upper) : Upper[k] = c]
    ELSE c

\* String.prototype.toLowerCase.
toLowerCase(s) == [k \in 1..Len(s) |-> lowerChar(s[k])]

isSpace(c) == c = " "

\* String.prototype.trim: whitespace removed at both ends.
RECURSIVE trimStart(_)
trimStart(s) ==
    IF s # <<>> /\ isSpace(Head(s)) THEN trimStart(Tail(s)) ELSE s

RECURSIVE trimEnd(_)
trimEnd(s) ==
    IF s # <<>> /\ isSpace(s[Len(s)]) THEN trimEnd(SubSeq(s, 1, Len(s) - 1)) ELSE s

trim(s) == trimEnd(trimStart(s))

\* String.prototype.split(','): the pieces between the commas, in order; a
\* string with no comma is its own single piece.
RECURSIVE split(_)
split(s) ==
    IF \E k \in 1..Len(s) : s[k] = ","
    THEN LET k == CHOOSE j \in 1..Len(s) :
                      s[j] = "," /\ \A h \in 1..(j - 1) : s[h] # ","
         IN  <<SubSeq(s, 1, k - 1)>> \o split(SubSeq(s, k + 1, Len(s)))
    ELSE <<s>>

\* Array.prototype.includes on an array of strings (strict equality).
includes(list, x) == \E k \in 1..Len(list) : list[k] = x

digitValue(c) == (CHOOSE k \in 1..Len(Digits) : Digits[k] = c) - 1
isDigit(c) == \E k \in 1..Len(Digits) : Digits[k] = c

\* parseInt(s, 10) on an unsigned string: the leading digits, NaN when the
\* string starts with none.
RECURSIVE parseDigits(_, _)
parseDigits(s, acc) ==
    IF s # <<>> /\ isDigit(Head(s))
    THEN parseDigits(Tail(s), acc * 10 + digitValue(Head(s)))
    ELSE acc

parseInt(s) ==
    LET t == trimStart(s)
    IN  IF t # <<>> /\ isDigit(Head(t)) THEN parseDigits(t, 0) ELSE NaN

\* ------------------------------------------------------------- entries
\* One media item of a backend reply.  A URL field is a non-empty string,
\* the empty string, or undefined (the field is absent).
Entry(ch, hd, md, lo) ==
    [id |-> <<"i", "d">>, channel |-> ch,
     url_video_hd |-> hd, url_video |-> md, url_video_low |-> lo]

\* The value of "no entry selected yet".
NoEntry ==
    [id |-> Undefined, channel |-> Undefined,
     url_video_hd |-> Undefined, url_video |-> Undefined, url_video_low |-> Undefined]

UrlHd == <<"h">>
UrlMd == <<"m">>
UrlLo == <<"l">>

\* video[field]: a property read; a property the entry does not have is
\* undefined.
Field(video, field) ==
    CASE field = "url_video_hd" -> video.url_video_hd
      [] field = "url_video" -> video.url_video
      [] field = "url_video_low" -> video.url_video_low
      [] OTHER -> Undefined

\* All sequences over S of length at most n.
SeqUpTo(S, n) == UNION {[1..k -> S] : k \in 0..n}

\* ------------------------------------------------------------- searchMovies
\* searchQuery with the channel clause added for every channel but undefined.
searchQuery_ChannelUnlessUndefined(query, channel, limit) ==
    [queries |->
        <<[fields |-> <<"title", "topic">>, query |-> query]>>
        \o (IF channel # Undefined
            THEN <<[fields |-> <<"channel">>, query |-> channel]>>
            ELSE <<>>),
     sortBy |-> "timestamp",
     sortOrder |-> "desc",
     future |-> FALSE,
     offset |-> 0,
     size |-> IF Truthy(limit) THEN <<parseInt(limit)>> ELSE <<>>]

\* The searchQuery object searchMovies emits.  size is the empty sequence
\* when the object has no size property.
searchQuery(query, channel, limit) ==
    [queries |->
        <<[fields |-> <<"title", "topic">>, query |-> query]>>
        \o (IF Truthy(channel)
            THEN <<[fields |-> <<"channel">>, query |-> channel]>>
            ELSE <<>>),
     sortBy |-> "timestamp",
     sortOrder |-> "desc",
     future |-> FALSE,
     offset |-> 0,
     size |-> IF Truthy(limit) THEN <<parseInt(limit)>> ELSE <<>>]

NoQuery == [queries |-> <<>>]

\* excludedChannelsList with the trim forgotten.
excludedChannelsList_NoTrim(excludeChannels) ==
    IF Truthy(excludeChannels) THEN split(excludeChannels) ELSE <<>>

\* excludeChannels.split(',').map(ch => ch.trim()), or [] without the option.
excludedChannelsList(excludeChannels) ==
    IF Truthy(excludeChannels)
    THEN LET parts == split(excludeChannels)
         IN  [k \in 1..Len(parts) |-> trim(parts[k])]
    ELSE <<>>

\* results.filter(item => !excludedChannelsList.includes(item.channel)),
\* applied only when the list is not empty.
filterExcluded(results, list) ==
    IF Len(list) > 0
    THEN SelectSeq(results, LAMBDA item : ~includes(list, item.channel))
    ELSE results

\* The "Excluded N results" console line: <<N>> when it is printed, the
\* empty sequence when it is not.
excludedMessage(results, list) ==
    IF Len(list) > 0
    THEN LET excludedCount == Len(results) - Len(filterExcluded(results, list))
         IN  IF excludedCount > 0 THEN <<excludedCount>> ELSE <<>>
    ELSE <<>>

\* The excludedCount of the 'Filtered excluded channels' debug line: printed
\* only in debug mode, and only when the list is not empty.
excludedDebug(results, list, debugMode) ==
    IF debugMode /\ Len(list) > 0
    THEN <<Len(results) - Len(filterExcluded(results, list))>>
    ELSE <<>>

\* ------------------------------------------------------------- quality
NoQuality == "undefined"

\* qualityMap[key] in getAndDownloadVideo.  "constructor" is a property the
\* object literal inherits: truthy, and no field of an entry.
qualityMapById(key) ==
    CASE key = HD -> "url_video_hd"
      [] key = MEDIUM -> "url_video"
      [] key = LOW -> "url_video_low"
      [] key = <<"c", "o", "n", "s", "t", "r", "u", "c", "t", "o", "r">> -> "inherited"
      [] OTHER -> NoQuality

\* The quality selection of getAndDownloadVideo: the field name chosen, or
\* undefined.
selectQualityById(video, preference) ==
    LET preferredQuality ==
            IF Truthy(preference) /\ qualityMapById(toLowerCase(preference)) # NoQuality
            THEN qualityMapById(toLowerCase(preference))
            ELSE NoQuality
        quality ==
            IF preferredQuality # NoQuality /\ Truthy(Field(video, preferredQuality))
            THEN preferredQuality
            ELSE NoQuality
    IN  IF quality # NoQuality THEN quality
        ELSE IF Truthy(video.url_video_hd) THEN "url_video_hd"
        ELSE IF Truthy(video.url_video) THEN "url_video"
        ELSE IF Truthy(video.url_video_low) THEN "url_video_low"
        ELSE NoQuality

\* qualityMap[key] in startInteractiveMode.
qualityMapInteractive(key) ==
    CASE key = HD -> "url_video_hd"
      [] key = MEDIUM -> "url_video"
      [] key = LOW -> "url_video_low"
      [] key = <<"c", "o", "n", "s", "t", "r", "u", "c", "t", "o", "r">> -> "inherited"
      [] OTHER -> NoQuality

\* selectQualityInteractive taking the preferred tier without looking at its
\* URL.
selectQualityInteractive_Unchecked(selectedVideo, preference) ==
    IF Truthy(preference) /\ qualityMapInteractive(toLowerCase(preference)) # NoQuality
    THEN qualityMapInteractive(toLowerCase(preference))
    ELSE IF Truthy(selectedVideo.url_video_hd) THEN "url_video_hd"
    ELSE IF Truthy(selectedVideo.url_video) THEN "url_video"
    ELSE IF Truthy(selectedVideo.url_video_low) THEN "url_video_low"
    ELSE NoQuality

\* The quality selection of startInteractiveMode.
selectQualityInteractive(selectedVideo, preference) ==
    LET preferredQuality ==
            IF Truthy(preference) /\ qualityMapInteractive(toLowerCase(preference)) # NoQuality
            THEN qualityMapInteractive(toLowerCase(preference))
            ELSE NoQuality
        quality ==
            IF preferredQuality # NoQuality /\ Truthy(Field(selectedVideo, preferredQuality))
            THEN preferredQuality
            ELSE NoQuality
    IN  IF quality # NoQuality THEN quality
        ELSE IF Truthy(selectedVideo.url_video_hd) THEN "url_video_hd"
        ELSE IF Truthy(selectedVideo.url_video) THEN "url_video"
        ELSE IF Truthy(selectedVideo.url_video_low) THEN "url_video_low"
        ELSE NoQuality

\* ------------------------------------------------------------- paths
\* typeof v === 'string'
isString(v) == v \notin {Undefined, Null, True}

\* String.prototype.startsWith
startsWith(s, prefix) ==
    Len(s) >= Len(prefix) /\ SubSeq(s, 1, Len(prefix)) = prefix

\* s.replace(/^~(?=$|\/|\\)/, home): a leading tilde that ends the string
\* or is followed by a slash or a backslash is replaced by home.
replaceLeadingTilde(s, home) ==
    IF s # <<>> /\ s[1] = "~" /\ (Len(s) = 1 \/ s[2] \in {"/", "\\"})
    THEN home \o Tail(s)
    ELSE s

\* s.replace(/~(?=$|\/|\\)/, home): the first such tilde, wherever it is.
RECURSIVE replaceFirstTilde(_, _)
replaceFirstTilde(s, home) ==
    IF s = <<>> THEN s
    ELSE IF s[1] = "~" /\ (Len(s) = 1 \/ s[2] \in {"/", "\\"})
    THEN home \o Tail(s)
    ELSE <<s[1]>> \o replaceFirstTilde(Tail(s), home)

\* expandTildePath with the anchors of the test and of the pattern forgotten.
expandTildePath_Anywhere(pathWithTilde, home) ==
    IF ~isString(pathWithTilde) THEN pathWithTilde
    ELSE replaceFirstTilde(pathWithTilde, home)

\* expandTildePath(pathWithTilde), with os.homedir() = home.
expandTildePath(pathWithTilde, home) ==
    IF ~isString(pathWithTilde) THEN pathWithTilde
    ELSE IF startsWith(pathWithTilde, <<"~", "/">>) \/ pathWithTilde = <<"~">>
    THEN replaceLeadingTilde(pathWithTilde, home)
    ELSE pathWithTilde

\* path.isAbsolute (POSIX)
isAbsolute(p) == p # <<>> /\ p[1] = "/"

\* The filename downloadVideo derives from a path the operator gave: the
\* expanded path, taken as it is when absolute and joined to process.cwd()
\* when not.
resolveFilename(p, home) ==
    LET expandedPath == expandTildePath(p, home)
    IN  [original |-> p, expandedPath |-> expandedPath,
         underCwd |-> ~isAbsolute(expandedPath)]

\* The filename before downloadVideo has set it.
NoFilename == [original |-> Undefined, expandedPath |-> Undefined, underCwd |-> FALSE]

\* The default filename `${sanitizedTitle}-${video.channel}.mp4`, joined to
\* process.cwd().
defaultFilename == <<"t", ".", "m", "p", "4">>

DefaultFilenameInCwd ==
    [original |-> defaultFilename, expandedPath |-> defaultFilename, underCwd |-> TRUE]

\* ------------------------------------------------------------- configuration file
\* The keys of the configuration the program reads.  {} has none of them.
EmptyConfig ==
    [output |-> Undefined, limit |-> Undefined, channel |-> Undefined,
     exclude |-> Undefined, quality |-> Undefined]

\* What parse(DEFAULT_CONFIG) yields: every default but quality is commented
\* out.
DEFAULT_CONFIG == [EmptyConfig EXCEPT !.quality = HD]

\* loadConfig rewriting the default file when the existing one cannot be
\* read or parsed.
loadConfig_RewriteUnparsable(file, writeOk) ==
    CASE file.kind = "readable" ->
           [config |-> [file.content EXCEPT !.output =
                            IF Truthy(@) THEN expandTildePath(@, file.home) ELSE @],
            file |-> [file EXCEPT !.reads = @ + 1]]
      [] file.kind = "unreadable" ->
           [config |-> EmptyConfig,
            file |-> [file EXCEPT !.reads = @ + 1, !.kind = "readable",
                                  !.content = DEFAULT_CONFIG, !.writes = @ + 1]]
      [] OTHER ->
           [config |-> EmptyConfig,
            file |-> IF writeOk
                     THEN [file EXCEPT !.kind = "readable", !.content = DEFAULT_CONFIG,
                                       !.writes = @ + 1]
                     ELSE file]

\* createDefaultConfig(): writes DEFAULT_CONFIG when the file does not exist;
\* a failed write is caught and leaves no file.
createDefaultConfig(file, writeOk) ==
    IF file.kind = "absent" /\ writeOk
    THEN [file EXCEPT !.kind = "readable", !.content = DEFAULT_CONFIG, !.writes = @ + 1]
    ELSE file

\* loadConfig(): the configuration object it returns and the file afterwards.
\* An existing file is read once; when reading or parsing throws the catch
\* returns {}.  A missing file is created and {} returned.
loadConfig(file, writeOk) ==
    CASE file.kind = "readable" ->
           [config |-> [file.content EXCEPT !.output =
                            IF Truthy(@) THEN expandTildePath(@, file.home) ELSE @],
            file |-> [file EXCEPT !.reads = @ + 1]]
      [] file.kind = "unreadable" ->
           [config |-> EmptyConfig, file |-> [file EXCEPT !.reads = @ + 1]]
      [] OTHER ->
           [config |-> EmptyConfig, file |-> createDefaultConfig(file, writeOk)]

\* value given on the command line, else the default
orDefault(given, default) == IF given # Undefined THEN given ELSE default

\* program.opts(): the command line argv over the defaults taken from the
\* configuration; quality falls back to 'hd'.
opts(argv, configDefaults) ==
    [argv EXCEPT
        !.output = orDefault(@, configDefaults.output),
        !.limit = orDefault(@, configDefaults.limit),
        !.channel = orDefault(@, configDefaults.channel),
        !.exclude = orDefault(@, configDefaults.exclude),
        !.quality = orDefault(@, IF Truthy(configDefaults.quality)
                                 THEN configDefaults.quality ELSE HD)]

\* The home directory and the configuration file of the runs that do not
\* look at them: a file with the default content, read once at startup.
HOME == <<"/", "h">>

LoadedConfigFile ==
    [home |-> HOME, kind |-> "readable", content |-> DEFAULT_CONFIG,
     kindAtStartup |-> "readable", contentAtStartup |-> DEFAULT_CONFIG,
     writes |-> 0, reads |-> 1]

\* ------------------------------------------------------------- state
VARIABLES
    options,    \* program.opts(): the parsed command line over the config defaults
    conn,       \* the socket: "connecting", "connected", "reconnecting", "closed"
    attempts,   \* reconnection attempts made since the last successful open
    nconn,      \* how often 'connect' has fired: handler runs 1..nconn exist
    inst,       \* per run of the 'connect' handler: its position and locals
    exited,     \* process.exit was called, or the process ended
    exitCode,   \* the exit code, once exited
    configFile  \* ~/.mediathekviewrc and the home directory it lives in

vars == <<options, conn, attempts, nconn, inst, exited, exitCode, configFile>>

Runs == 1..MaxConnects

\* A handler run before 'connect' has fired for it.
IdleRun ==
    [pc |-> "idle", action |-> "none",
     nChannels |-> 0, nEntries |-> 0, nAsset |-> 0, nEmits |-> 0, nDetails |-> 0,
     sent |-> NoQuery, choices |-> <<>>, chanSel |-> "none", listed |-> "none",
     lookup |-> "none", reply |-> "none",
     raw |-> <<>>, results |-> <<>>, excludedMsg |-> <<>>, excludedDbg |-> <<>>,
     video |-> NoEntry, quality |-> NoQuality, url |-> Undefined,
     entered |-> FALSE, filenamePrompted |-> FALSE, probed |-> FALSE,
     actionPrompted |-> FALSE, played |-> FALSE, fileOpened |-> FALSE,
     filename |-> NoFilename, choice |-> "none", status |-> "none",
     contentLength |-> Undefined, totalSize |-> NaN,
     downloadedBytes |-> 0, lastLoggedPercent |-> 0, log |-> <<>>]

\* The option values of a run of the whole program (Spec).
MainOptions ==
    [channels : BOOLEAN,
     query : {Undefined, <<"q">>},
     download : {Undefined, <<"i", "d">>},
     interactive : {FALSE},
     channel : {Undefined, True, ARD},
     exclude : {Undefined},
     quality : {HD},
     output : {Undefined, <<"o">>},
     limit : {Undefined},
     debug : {FALSE}]

\* The entries the backend replies with in Spec.
MainEntries ==
    {Entry(ARD, hd, Undefined, Undefined) : hd \in {Undefined, UrlHd}}

MainResults == SeqUpTo(MainEntries, MaxResults)

\* The state after the module has run: options parsed, io() called, handlers
\* registered, first connection attempt under way.
InitWith(optionSet) ==
    /\ options \in optionSet
    /\ conn = "connecting"
    /\ attempts = 0
    /\ nconn = 0
    /\ inst = [i \in Runs |-> IdleRun]
    /\ exited = FALSE
    /\ exitCode = 0
    /\ configFile = LoadedConfigFile

Init == InitWith(MainOptions)

\* process.exit(code)
Exit(code) ==
    /\ exited' = TRUE
    /\ exitCode' = code

Running == ~exited

\* os.homedir()
homedir == configFile.home

\* ------------------------------------------------------------- downloadVideo
\* node-fetch rejects a url that is no absolute URL before any request.
isAbsoluteUrl(url) == Truthy(url)

\* fetch(url) inside downloadVideo's try: the run after the call, or "caught"
\* when the call rejects at once (the catch returns to the caller).
startFetch(r) ==
    IF isAbsoluteUrl(r.url)
    THEN [r EXCEPT !.pc = "awaitFetch", !.nAsset = @ + 1]
    ELSE [r EXCEPT !.pc = "returned"]

\* downloadVideo(url, filename, video) up to its first await: with an output
\* option no filename prompt, the probe `which mpv` is spawned at once.
downloadVideo(r, url, o) ==
    IF Truthy(o.output)
    THEN [r EXCEPT !.url = url, !.entered = TRUE, !.probed = TRUE, !.pc = "awaitWhich",
                   !.filename = resolveFilename(o.output, homedir)]
    ELSE [r EXCEPT !.url = url, !.entered = TRUE, !.filenamePrompted = TRUE,
                   !.pc = "promptFilename"]

\* ------------------------------------------------------------- dispatch
\* listChannels() up to its first await.
listChannels(r) ==
    [r EXCEPT !.action = "list", !.pc = "awaitChannels", !.nChannels = @ + 1]

\* searchMovies(query, channel, limit, excludeChannels) up to the emit.
searchMovies(r, query, channel, limit) ==
    [r EXCEPT !.pc = "awaitSearch", !.nEmits = @ + 1,
              !.sent = searchQuery(query, channel, limit)]

\* getAndDownloadVideo(id) up to its first await.
getAndDownloadVideo(r) ==
    [r EXCEPT !.action = "download", !.pc = "awaitEntries", !.nEntries = @ + 1]

\* startInteractiveMode() up to its first await.
startInteractiveMode(r) ==
    [r EXCEPT !.action = "interactive", !.pc = "awaitInteractiveChannels",
              !.nChannels = @ + 1]

\* dispatch with the download flag tested before the query flag.
dispatch_DownloadFirst(r, o) ==
    IF o.channels THEN listChannels(r)
    ELSE IF Truthy(o.download) THEN getAndDownloadVideo(r)
    ELSE IF Truthy(o.query)
         THEN searchMovies([r EXCEPT !.action = "search"], o.query, o.channel, o.limit)
    ELSE startInteractiveMode(r)

\* "Process command line options": the if/else chain of the connect handler.
dispatch(r, o) ==
    IF o.channels THEN listChannels(r)
    ELSE IF Truthy(o.query)
         THEN searchMovies([r EXCEPT !.action = "search"], o.query, o.channel, o.limit)
    ELSE IF Truthy(o.download) THEN getAndDownloadVideo(r)
    ELSE IF o.interactive THEN startInteractiveMode(r)
    ELSE startInteractiveMode(r)

\* ------------------------------------------------------------- transport
\* The run i of the 'connect' handler up to its first await.
OnConnect(i) ==
    IF options.channel = True
    THEN inst' = [inst EXCEPT ![i] =
                      [@ EXCEPT !.pc = "awaitChannelsForPrompt", !.nChannels = @ + 1]]
    ELSE inst' = [inst EXCEPT ![i] = dispatch(@, options)]

\* The transport opens the connection (the first time, or again after a
\* disconnect) and fires 'connect'.
ConnectOk ==
    /\ Running
    /\ conn \in {"connecting", "reconnecting"}
    /\ nconn < MaxConnects
    /\ conn' = "connected"
    /\ attempts' = 0
    /\ nconn' = nconn + 1
    /\ OnConnect(nconn + 1)
    /\ UNCHANGED <<options, exited, exitCode, configFile>>

\* An open attempt fails.  The transport schedules the next attempt until
\* reconnectionAttempts of them were made, then gives up; the program has no
\* handler for either event.
ConnectFail ==
    /\ Running
    /\ conn \in {"connecting", "reconnecting"}
    /\ IF attempts >= reconnectionAttempts
       THEN conn' = "closed" /\ UNCHANGED attempts
       ELSE attempts' = attempts + 1 /\ UNCHANGED conn
    /\ UNCHANGED <<options, nconn, inst, exited, exitCode, configFile>>

\* socket.on('disconnect'): a message, nothing else; the transport starts
\* to reconnect.  (Disconnections after the last 'connect' the run allows
\* are left out: nothing could follow them.)
Disconnect ==
    /\ Running
    /\ conn = "connected"
    /\ nconn < MaxConnects
    /\ conn' = "reconnecting"
    /\ UNCHANGED <<options, attempts, nconn, inst, exited, exitCode, configFile>>

\* socket.on('error'): process.exit(1).  The event reaches the socket when
\* the server answers an open attempt with an error packet.
SocketError ==
    /\ Running
    /\ conn \in {"connecting", "reconnecting"}
    /\ Exit(1)
    /\ UNCHANGED <<options, conn, attempts, nconn, inst, configFile>>

\* A run holds the process open while it waits for a reply, a prompt, a
\* subprocess or a stream.
Pending(r) == r.pc \notin {"idle", "resolved"}

\* The transport has given up and nothing else is pending: the process ends
\* by itself, with code 0.
EventLoopEmpty ==
    /\ Running
    /\ conn = "closed"
    /\ \A i \in Runs : ~Pending(inst[i])
    /\ Exit(0)
    /\ UNCHANGED <<options, conn, attempts, nconn, inst, configFile>>

\* SIGINT with the exit left to the event loop.
SIGINT_Drain ==
    /\ Running
    /\ conn \notin {"none", "disconnected"}
    /\ conn' = "disconnected"
    /\ UNCHANGED <<options, attempts, nconn, inst, exited, exitCode, configFile>>

\* process.on('SIGINT'): socket.disconnect(), then process.exit(0).  The
\* handler touches no request, stream or file; the process ends with every
\* descriptor it holds.
SIGINT ==
    /\ Running
    /\ conn # "none"
    /\ conn' = "disconnected"
    /\ Exit(0)
    /\ UNCHANGED <<options, attempts, nconn, inst, configFile>>

\* The module body up to io(): loadConfig(), program.parse(), the socket is
\* created and starts to connect.  Before it options holds the command line
\* as given.
ModuleLoad ==
    /\ Running
    /\ conn = "none"
    /\ \E writeOk \in BOOLEAN :
         LET loaded == loadConfig(configFile, writeOk)
         IN  /\ configFile' = loaded.file
             /\ options' = opts(options, loaded.config)
    /\ conn' = "connecting"
    /\ UNCHANGED <<attempts, nconn, inst, exited, exitCode>>

\* ------------------------------------------------------------- steps
\* Run i continues as r; a downloadVideo that has returned is followed by
\* the caller's process.exit(0).
Continue(i, r) ==
    /\ inst' = [inst EXCEPT ![i] = r]
    /\ IF r.pc = "returned" THEN Exit(0) ELSE UNCHANGED <<exited, exitCode>>

\* Run i ends the process with the given code.
Finish(i, r, code) ==
    /\ inst' = [inst EXCEPT ![i] = [r EXCEPT !.pc = "exited"]]
    /\ Exit(code)

\* The replies to GET /api/channels: the call or response.json() throws, or
\* a body with or without a channels array and with or without an error field.
ChannelReplies ==
    {[kind |-> "throw", hasChannels |-> FALSE, channels |-> <<>>, error |-> Undefined]}
    \cup [kind : {"data"}, hasChannels : {FALSE}, channels : {<<>>},
          error : {Undefined, <<"e">>}]
    \cup [kind : {"data"}, hasChannels : {TRUE}, channels : {<<>>, <<ZDF, ARD>>},
          error : {Undefined, <<"e">>}]

\* Connect handler, channel flag without a value: the channel list arrives.
ChannelSelectionReply(i) ==
    /\ Running
    /\ inst[i].pc = "awaitChannelsForPrompt"
    /\ \E data \in ChannelReplies :
         LET channels == IF data.hasChannels THEN data.channels ELSE <<>>
         IN  IF data.kind = "throw"
             THEN /\ options' = [options EXCEPT !.channel = Null]
                  /\ Continue(i, dispatch([inst[i] EXCEPT !.chanSel = "failed"], options'))
             ELSE IF Len(channels) > 0
             THEN /\ Continue(i, [inst[i] EXCEPT !.pc = "promptChannel",
                                                 !.choices = <<Null>> \o channels,
                                                 !.chanSel = "ok"])
                  /\ UNCHANGED options
             ELSE /\ options' = [options EXCEPT !.channel = Null]
                  /\ Continue(i, dispatch([inst[i] EXCEPT !.chanSel =
                                     IF data.hasChannels THEN "empty" ELSE "malformed"],
                                          options'))
    /\ UNCHANGED <<conn, attempts, nconn, configFile>>

\* The operator picks ALL (null) or a channel.
ChannelPromptAnswer(i) ==
    /\ Running
    /\ inst[i].pc = "promptChannel"
    /\ \E k \in 1..Len(inst[i].choices) :
         /\ options' = [options EXCEPT !.channel = inst[i].choices[k]]
         /\ Continue(i, dispatch(inst[i], options'))
    /\ UNCHANGED <<conn, attempts, nconn, configFile>>

\* listChannels after its await: prints the list or the error, then
\* process.exit(0).
ListChannelsReply(i) ==
    /\ Running
    /\ inst[i].pc = "awaitChannels"
    /\ \E data \in ChannelReplies :
         LET outcome == IF data.kind = "throw" THEN "failed"
                        ELSE IF Truthy(data.error) THEN "error"
                        ELSE IF ~data.hasChannels THEN "failed"
                        ELSE "shown"
         IN  Finish(i, [inst[i] EXCEPT !.listed = outcome], 0)
    /\ UNCHANGED <<options, conn, attempts, nconn, configFile>>

\* ------------------------------------------------------------- search
\* The replies to a queryEntries emit: an error payload or a success payload
\* with the given result sequences.
SearchResponses(resultSets) ==
    {[err |-> <<"e">>, results |-> <<>>]}
    \cup [err : {Undefined}, results : resultSets]

\* The exit code when a search started by the query flag is rejected: nobody
\* awaits the promise, so the 'unhandledRejection' handler runs.
unhandledRejectionExit == 1

\* The queryEntries callback of searchMovies, and what the caller does with
\* the settled promise:
\*   query flag   - nothing awaits it: a rejection reaches 'unhandledRejection'
\*                  (exit 1), a resolution is dropped;
\*   interactive  - awaited inside try: a rejection reaches the catch and then
\*                  process.exit(0); no results exit 0; else the video prompt.
SearchReply(i, resultSets) ==
    /\ Running
    /\ inst[i].pc = "awaitSearch"
    /\ \E response \in SearchResponses(resultSets) :
         IF Truthy(response.err)
         THEN LET r == [inst[i] EXCEPT !.reply = "err"]
              IN  IF r.action = "search"
                  THEN Finish(i, r, unhandledRejectionExit)
                  ELSE Finish(i, r, 0)
         ELSE LET list == excludedChannelsList(options.exclude)
                  results == filterExcluded(response.results, list)
                  r == [inst[i] EXCEPT
                           !.reply = "ok",
                           !.raw = response.results,
                           !.results = results,
                           !.excludedMsg = excludedMessage(response.results, list),
                           !.excludedDbg =
                               excludedDebug(response.results, list, options.debug)]
              IN  IF r.action = "search"
                  THEN Continue(i, [r EXCEPT !.pc = "resolved"])
                  ELSE IF Len(results) = 0
                  THEN Finish(i, r, 0)
                  ELSE Continue(i, [r EXCEPT !.pc = "promptVideo"])
    /\ UNCHANGED <<options, conn, attempts, nconn, configFile>>

\* ------------------------------------------------------------- interactive
\* startInteractiveMode after the channel list call: a failure reaches the
\* catch and process.exit(0); anything else leads to the query prompt.
InteractiveChannelsReply(i) ==
    /\ Running
    /\ inst[i].pc = "awaitInteractiveChannels"
    /\ \E data \in ChannelReplies :
         IF data.kind = "throw"
         THEN Finish(i, inst[i], 0)
         ELSE Continue(i, [inst[i] EXCEPT !.pc = "promptQuery"])
    /\ UNCHANGED <<options, conn, attempts, nconn, configFile>>

\* What the operator types at the query prompt.
PromptTexts == {<<>>, <<"q">>}

\* validate: input => input.length > 0 ? true : 'Please enter a search query'
validate(input) == Len(input) > 0

\* options.x || null
orNull(v) == IF Truthy(v) THEN v ELSE Null

\* The operator answers the query prompt; searchMovies is called.
QueryPromptAnswer(i) ==
    /\ Running
    /\ inst[i].pc = "promptQuery"
    /\ \E text \in PromptTexts :
         IF validate(text)
         THEN Continue(i, searchMovies(inst[i], text, orNull(options.channel),
                                       orNull(options.limit)))
         ELSE \* the prompt shows the message and stays open
              Continue(i, inst[i])
    /\ UNCHANGED <<options, conn, attempts, nconn, configFile>>

\* The operator selects a result; getVideoDetails emits getDescription.
VideoPromptAnswer(i) ==
    /\ Running
    /\ inst[i].pc = "promptVideo"
    /\ \E k \in 1..Len(inst[i].results) :
         Continue(i, [inst[i] EXCEPT !.video = inst[i].results[k],
                                     !.nDetails = @ + 1,
                                     !.pc = "awaitDescription"])
    /\ UNCHANGED <<options, conn, attempts, nconn, configFile>>

\* The description arrives or is refused (both continue); quality selection;
\* downloadVideo(selectedVideo[quality], filename, selectedVideo).
DescriptionReply(i) ==
    /\ Running
    /\ inst[i].pc = "awaitDescription"
    /\ LET quality == selectQualityInteractive(inst[i].video, options.quality)
       IN  Continue(i, downloadVideo([inst[i] EXCEPT !.quality = quality],
                                     Field(inst[i].video, quality), options))
    /\ UNCHANGED <<options, conn, attempts, nconn, configFile>>

\* ------------------------------------------------------------- download by id
\* The replies to POST /api/entries: the call throws; a body with an err
\* field; a body whose result has no results array; a body with results.
EntryReplies(entrySet) ==
    {[kind |-> "throw", err |-> Undefined, hasResults |-> FALSE, results |-> <<>>],
     [kind |-> "data", err |-> <<"e">>, hasResults |-> FALSE, results |-> <<>>],
     [kind |-> "data", err |-> Undefined, hasResults |-> FALSE, results |-> <<>>]}
    \cup [kind : {"data"}, err : {Undefined}, hasResults : {TRUE},
          results : SeqUpTo(entrySet, 1)]

\* if (data.err) ... process.exit(1)
hasError(data) == Truthy(data.err)

\* noVideoFound with the length test forgotten.
noVideoFound_MissingOnly(data) == ~data.hasResults

\* if (!data.result.results || data.result.results.length === 0) ... process.exit(1)
noVideoFound(data) == ~data.hasResults \/ Len(data.results) = 0

\* getAndDownloadVideo after the entry lookup: an error field or an empty
\* result set exit 1; a thrown call reaches the catch and process.exit(0);
\* else quality selection and downloadVideo(video[quality], filename, video).
\* (Reading a property of results[0] when there is no such element throws
\* inside the try.)
EntriesReply(i, entrySet) ==
    /\ Running
    /\ inst[i].pc = "awaitEntries"
    /\ \E data \in EntryReplies(entrySet) :
         IF data.kind = "throw"
         THEN Finish(i, [inst[i] EXCEPT !.lookup = "throw"], 0)
         ELSE IF hasError(data)
         THEN Finish(i, [inst[i] EXCEPT !.lookup = "err"], 1)
         ELSE IF noVideoFound(data)
         THEN Finish(i, [inst[i] EXCEPT !.lookup = "empty"], 1)
         ELSE IF Len(data.results) = 0
         THEN \* results[0] is undefined: video.title throws, the catch exits 0
              Finish(i, [inst[i] EXCEPT !.lookup = "empty"], 0)
         ELSE LET video == data.results[1]
                  quality == selectQualityById(video, options.quality)
              IN  Continue(i, downloadVideo([inst[i] EXCEPT !.lookup = "ok",
                                                            !.video = video,
                                                            !.quality = quality],
                                            Field(video, quality), options))
    /\ UNCHANGED <<options, conn, attempts, nconn, configFile>>

\* ------------------------------------------------------------- downloadVideo steps
\* What the operator enters at the filename prompt: Enter for the default,
\* or a path.
FilenameTexts == {defaultFilename, <<"~", "/", "f">>}

\* The operator answers the filename prompt with one of the given texts;
\* `which mpv` is spawned.
FilenamePromptAnswer(i, texts) ==
    /\ Running
    /\ inst[i].pc = "promptFilename"
    /\ \E customFilename \in texts :
         Continue(i, [inst[i] EXCEPT
                         !.filename = IF customFilename # defaultFilename
                                      THEN resolveFilename(customFilename, homedir)
                                      ELSE DefaultFilenameInCwd,
                         !.probed = TRUE, !.pc = "awaitWhich"])
    /\ UNCHANGED <<options, conn, attempts, nconn, configFile>>

\* `which mpv` closes: with mpv the play/download prompt, without it the
\* fetch.
WhichClosed(i) ==
    /\ Running
    /\ inst[i].pc = "awaitWhich"
    /\ \E mpvAvailable \in BOOLEAN :
         IF mpvAvailable
         THEN Continue(i, [inst[i] EXCEPT !.actionPrompted = TRUE, !.pc = "promptAction"])
         ELSE Continue(i, startFetch(inst[i]))
    /\ UNCHANGED <<options, conn, attempts, nconn, configFile>>

\* The operator picks Play, Download or Cancel.  spawn('mpv', [url]) throws
\* on a url that is no string; the catch then returns.
ActionPromptAnswer(i) ==
    /\ Running
    /\ inst[i].pc = "promptAction"
    /\ \E action \in {"Play", "Download", "Cancel"} :
         LET r == [inst[i] EXCEPT !.choice = action]
         IN  IF action = "Play"
             THEN IF r.url = Undefined
                  THEN Continue(i, [r EXCEPT !.pc = "returned"])
                  ELSE Continue(i, [r EXCEPT !.played = TRUE, !.pc = "awaitPlayer"])
             ELSE IF action = "Cancel"
             THEN Continue(i, [r EXCEPT !.pc = "returned"])
             ELSE Continue(i, startFetch(r))
    /\ UNCHANGED <<options, conn, attempts, nconn, configFile>>

\* The player exits; downloadVideo returns.
PlayerClosed(i) ==
    /\ Running
    /\ inst[i].pc = "awaitPlayer"
    /\ Continue(i, [inst[i] EXCEPT !.pc = "returned"])
    /\ UNCHANGED <<options, conn, attempts, nconn, configFile>>

\* The outcomes of fetch(url): the call throws, or a response with a status
\* and a content-length header (null when the header is absent).
FetchResponses(lengths) ==
    {[kind |-> "throw", contentLength |-> Null]}
    \cup [kind : {"notOk", "ok"}, contentLength : lengths]

\* response.ok taken for granted.
responseOk_Unchecked(response) == response.kind # "throw"

\* response.ok
responseOk(response) == response.kind = "ok"

\* if (totalSize): a number other than NaN and 0
truthyNumber(n) == n # NaN /\ n # 0

\* The response to fetch(url): the call throws or the status is no success
\* (both return), or the destination file is opened and the body piped.
FetchReply(i, lengths) ==
    /\ Running
    /\ inst[i].pc = "awaitFetch"
    /\ \E response \in FetchResponses(lengths) :
         IF response.kind = "throw"
         THEN Continue(i, [inst[i] EXCEPT !.status = "throw", !.pc = "returned"])
         ELSE LET r == [inst[i] EXCEPT !.status = response.kind,
                                       !.contentLength = response.contentLength,
                                       !.totalSize = parseInt(response.contentLength)]
              IN  IF ~responseOk(response)
                  THEN Continue(i, [r EXCEPT !.pc = "returned"])
                  ELSE Continue(i, [r EXCEPT !.fileOpened = TRUE, !.pc = "transferring"])
    /\ UNCHANGED <<options, conn, attempts, nconn, configFile>>

MiB == 1048576

\* Math.round(downloadedBytes / totalSize * 100) for a positive totalSize:
\* the nearest integer, a half rounded up.
progressPercent(downloadedBytes, totalSize) ==
    (200 * downloadedBytes + totalSize) \div (2 * totalSize)

\* The 10% test with > written for >=.
percentDue_Strict(progress, lastLoggedPercent) == progress > lastLoggedPercent + 10

\* if (progress >= lastLoggedPercent + 10)
percentDue(progress, lastLoggedPercent) == progress >= lastLoggedPercent + 10

\* if (downloadedBytes / 1048576 >= lastLoggedPercent + 10)
sizeDue(downloadedBytes, lastLoggedPercent) ==
    downloadedBytes >= (lastLoggedPercent + 10) * MiB

\* The 'data' handler of response.body on a chunk of the given length.  log
\* records, per chunk, the byte count reached and the progress call made:
\* "percent" or "size" for the two debug('Download progress ...') calls,
\* "none" when the handler only updated the spinner text.
onData(r, chunkLength) ==
    LET downloadedBytes == r.downloadedBytes + chunkLength
    IN  IF truthyNumber(r.totalSize)
        THEN LET progress == progressPercent(downloadedBytes, r.totalSize)
             IN  IF percentDue(progress, r.lastLoggedPercent)
                 THEN [r EXCEPT !.downloadedBytes = downloadedBytes,
                                !.lastLoggedPercent = progress,
                                !.log = Append(@, [bytes |-> downloadedBytes,
                                                   event |-> "percent"])]
                 ELSE [r EXCEPT !.downloadedBytes = downloadedBytes,
                                !.log = Append(@, [bytes |-> downloadedBytes,
                                                   event |-> "none"])]
        ELSE IF sizeDue(downloadedBytes, r.lastLoggedPercent)
             THEN [r EXCEPT !.downloadedBytes = downloadedBytes,
                            !.lastLoggedPercent = downloadedBytes \div MiB,
                            !.log = Append(@, [bytes |-> downloadedBytes,
                                               event |-> "size"])]
             ELSE [r EXCEPT !.downloadedBytes = downloadedBytes,
                            !.log = Append(@, [bytes |-> downloadedBytes,
                                               event |-> "none"])]

\* response.body emits 'data' with a chunk of one of the given lengths.
DataChunk(i, lengths) ==
    /\ Running
    /\ inst[i].pc = "transferring"
    /\ Len(inst[i].log) < MaxChunks
    /\ \E chunkLength \in lengths : Continue(i, onData(inst[i], chunkLength))
    /\ UNCHANGED <<options, conn, attempts, nconn, configFile>>

\* The transfer ends: 'finish' of the file stream or 'error' of the body;
\* downloadVideo returns either way.
TransferEnd(i) ==
    /\ Running
    /\ inst[i].pc = "transferring"
    /\ Continue(i, [inst[i] EXCEPT !.pc = "returned"])
    /\ UNCHANGED <<options, conn, attempts, nconn, configFile>>

\* ------------------------------------------------------------- specification
\* Steps of the program, the backend, the operator and the subprocesses for
\* handler run i.
RunStep(i) ==
    \/ ChannelSelectionReply(i)
    \/ ChannelPromptAnswer(i)
    \/ ListChannelsReply(i)
    \/ SearchReply(i, MainResults)
    \/ InteractiveChannelsReply(i)
    \/ QueryPromptAnswer(i)
    \/ VideoPromptAnswer(i)
    \/ DescriptionReply(i)
    \/ EntriesReply(i, MainEntries)
    \/ FilenamePromptAnswer(i, FilenameTexts)
    \/ WhichClosed(i)
    \/ ActionPromptAnswer(i)
    \/ PlayerClosed(i)
    \/ FetchReply(i, {Null})
    \/ DataChunk(i, {MiB})
    \/ TransferEnd(i)

Next ==
    \/ ConnectOk
    \/ ConnectFail
    \/ Disconnect
    \/ SocketError
    \/ EventLoopEmpty
    \/ SIGINT
    \/ \E i \in Runs : RunStep(i)

Spec == Init /\ [][Next]_vars

\* The program under the scheduling the claims about termination assume:
\* the transport settles every open attempt, every request is answered,
\* every prompt is answered, every subprocess and stream ends, and a process
\* with nothing pending ends.  Disconnections and error packets are not
\* forced to happen.
FairSpec ==
    /\ Spec
    /\ WF_vars(ConnectOk \/ ConnectFail)
    /\ WF_vars(EventLoopEmpty)
    /\ WF_vars(\E i \in Runs : RunStep(i))

\* ------------------------------------------------------------- download by id alone
\* Runs with the download flag and no list or query flag.
DownloadOptions ==
    [channels : {FALSE},
     query : {Undefined},
     download : {<<"i", "d">>},
     interactive : {FALSE},
     channel : {Undefined, True},
     exclude : {Undefined},
     quality : {HD},
     output : {Undefined, <<"o">>},
     limit : {Undefined},
     debug : {FALSE}]

DownloadEntries ==
    {Entry(ARD, hd, Undefined, Undefined) : hd \in {Undefined, UrlHd}}

InitDownload == InitWith(DownloadOptions)

DownloadStep(i) ==
    \/ ChannelSelectionReply(i)
    \/ ChannelPromptAnswer(i)
    \/ EntriesReply(i, DownloadEntries)
    \/ FilenamePromptAnswer(i, {defaultFilename})
    \/ WhichClosed(i)
    \/ ActionPromptAnswer(i)
    \/ PlayerClosed(i)
    \/ FetchReply(i, {Null})
    \/ TransferEnd(i)

NextDownload ==
    \/ ConnectOk
    \/ ConnectFail
    \/ Disconnect
    \/ SocketError
    \/ EventLoopEmpty
    \/ \E i \in Runs : DownloadStep(i)

SpecDownload == InitDownload /\ [][NextDownload]_vars

\* ------------------------------------------------------------- searchMovies alone
\* Exclusion option texts with the set of channel names each one stands for.
ExcludeCases ==
    {[text |-> <<"Z", "D", "F">>, names |-> {ZDF}],
     [text |-> <<" ", "Z", "D", "F", " ">>, names |-> {ZDF}],
     [text |-> <<"Z", "D", "F", ",", "A", "R", "D">>, names |-> {ZDF, ARD}],
     [text |-> <<"Z", "D", "F", ",", " ", "A", "R", "D">>, names |-> {ZDF, ARD}],
     [text |-> <<"z", "d", "f">>, names |-> {<<"z", "d", "f">>}],
     [text |-> <<"A", "R", "D", ",">>, names |-> {ARD, <<>>}]}

KIKA == <<"K", "i", "K", "A">>

\* Runs with the query flag.
SearchOptions ==
    [channels : {FALSE},
     query : {<<"q">>},
     download : {Undefined},
     interactive : {FALSE},
     channel : {Undefined, ARD},
     exclude : {Undefined} \cup {c.text : c \in ExcludeCases},
     quality : {HD},
     output : {Undefined},
     limit : {Undefined},
     debug : BOOLEAN]

SearchEntries == {Entry(ch, UrlHd, Undefined, Undefined) : ch \in {ARD, ZDF, KIKA}}

SearchResults == SeqUpTo(SearchEntries, MaxSearchResults)

InitSearch == InitWith(SearchOptions)

NextSearch ==
    \/ ConnectOk
    \/ \E i \in Runs : SearchReply(i, SearchResults)

SpecSearch == InitSearch /\ [][NextSearch]_vars

\* ------------------------------------------------------------- quality selection alone
\* Quality option texts with the entry field each one prefers (NoQuality
\* for a text that names no tier).
QualityCases ==
    {[text |-> HD, field |-> "url_video_hd"],
     [text |-> <<"H", "D">>, field |-> "url_video_hd"],
     [text |-> MEDIUM, field |-> "url_video"],
     [text |-> <<"L", "o", "w">>, field |-> "url_video_low"],
     [text |-> <<"4", "k">>, field |-> NoQuality],
     [text |-> <<"c", "o", "n", "s", "t", "r", "u", "c", "t", "o", "r">>, field |-> NoQuality],
     [text |-> <<>>, field |-> NoQuality]}

\* Runs of download by id and of interactive mode, over every quality text.
QualityOptions ==
    [channels : {FALSE},
     query : {Undefined},
     download : {Undefined, <<"i", "d">>},
     interactive : BOOLEAN,
     channel : {Undefined},
     exclude : {Undefined},
     quality : {c.text : c \in QualityCases},
     output : {<<"o">>},
     limit : {Undefined},
     debug : {FALSE}]

QualityEntries ==
    {Entry(ARD, hd, md, lo) :
        hd \in {Undefined, <<>>, UrlHd},
        md \in {Undefined, <<>>, UrlMd},
        lo \in {Undefined, <<>>, UrlLo}}

InitQuality == InitWith(QualityOptions)

QualityStep(i) ==
    \/ EntriesReply(i, QualityEntries)
    \/ InteractiveChannelsReply(i)
    \/ QueryPromptAnswer(i)
    \/ SearchReply(i, SeqUpTo(QualityEntries, 1))
    \/ VideoPromptAnswer(i)
    \/ DescriptionReply(i)

NextQuality ==
    \/ ConnectOk
    \/ \E i \in Runs : QualityStep(i)

SpecQuality == InitQuality /\ [][NextQuality]_vars

\* ------------------------------------------------------------- downloadVideo alone
\* Runs of download by id up to the end of the transfer, with the operator's
\* interrupt.
TransferOptions ==
    [channels : {FALSE},
     query : {Undefined},
     download : {<<"i", "d">>},
     interactive : {FALSE},
     channel : {Undefined},
     exclude : {Undefined},
     quality : {HD},
     output : {Undefined, <<"~", "/", "o">>},
     limit : {Undefined},
     debug : {FALSE}]

TransferEntries ==
    {Entry(ARD, hd, Undefined, Undefined) : hd \in {Undefined, UrlHd}}

\* The content-length header of the response: absent, zero, no number, 40.
ContentLengths == {Null, <<"0">>, <<"x">>, <<"4", "0">>}

\* The chunk lengths response.body delivers: bytes for a body of a declared
\* length of tens of bytes, up to MiBs for a body of unknown length.
KnownChunks == {1, 4, 6}
UnknownChunks == {MiB \div 2, 6 * MiB, 15 * MiB}
TransferChunks(r) == IF truthyNumber(r.totalSize) THEN KnownChunks ELSE UnknownChunks

InitTransfer == InitWith(TransferOptions)

TransferStep(i) ==
    \/ EntriesReply(i, TransferEntries)
    \/ FilenamePromptAnswer(i, FilenameTexts)
    \/ WhichClosed(i)
    \/ ActionPromptAnswer(i)
    \/ PlayerClosed(i)
    \/ FetchReply(i, ContentLengths)
    \/ DataChunk(i, TransferChunks(inst[i]))
    \/ TransferEnd(i)

NextTransfer ==
    \/ ConnectOk
    \/ SIGINT
    \/ \E i \in Runs : TransferStep(i)

SpecTransfer == InitTransfer /\ [][NextTransfer]_vars

\* ------------------------------------------------------------- dispatch alone
\* Every combination of the action flags, a flag with an empty value
\* included, with the channel flag absent, without a value, or with one.
DispatchOptions ==
    [channels : BOOLEAN,
     query : {Undefined, <<>>, <<"q">>},
     download : {Undefined, <<>>, <<"i", "d">>},
     interactive : BOOLEAN,
     channel : {Undefined, True, ARD},
     exclude : {Undefined},
     quality : {HD},
     output : {Undefined},
     limit : {Undefined},
     debug : {FALSE}]

InitDispatch == InitWith(DispatchOptions)

\* The connect handler up to the first step of the action it starts.
NextDispatch ==
    \/ ConnectOk
    \/ Disconnect
    \/ \E i \in Runs : ChannelSelectionReply(i)
    \/ \E i \in Runs : ChannelPromptAnswer(i)

SpecDispatch == InitDispatch /\ [][NextDispatch]_vars

\* ------------------------------------------------------------- query construction alone
\* Limit option texts with the size property each one stands for (the empty
\* sequence for no size property).
LimitCases ==
    {[text |-> Undefined, size |-> <<>>],
     [text |-> <<>>, size |-> <<>>],
     [text |-> <<"5">>, size |-> <<5>>],
     [text |-> <<"1", "2">>, size |-> <<12>>],
     [text |-> <<"0">>, size |-> <<0>>],
     [text |-> <<"x">>, size |-> <<NaN>>]}

\* Runs that search, by the query flag or in interactive mode, over every
\* kind of channel and limit value.
QueryOptions ==
    [channels : {FALSE},
     query : {Undefined, <<>>, <<"q">>},
     download : {Undefined},
     interactive : {FALSE},
     channel : {Undefined, True, <<>>, ARD},
     exclude : {Undefined},
     quality : {HD},
     output : {Undefined},
     limit : {c.text : c \in LimitCases},
     debug : {FALSE}]

InitQuery == InitWith(QueryOptions)

\* The program up to the emit of the query.
QueryStep(i) ==
    \/ ChannelSelectionReply(i)
    \/ ChannelPromptAnswer(i)
    \/ InteractiveChannelsReply(i)
    \/ QueryPromptAnswer(i)

NextQuery ==
    \/ ConnectOk
    \/ \E i \in Runs : QueryStep(i)

SpecQuery == InitQuery /\ [][NextQuery]_vars

\* ------------------------------------------------------------- startup and download
\* Paths over a tilde, a slash and a letter.
PathChars == {"~", "/", "a"}
Paths == SeqUpTo(PathChars, MaxPathLen)

\* Home directories: absolute paths.
HomeDirs == {HOME, <<"/">>, <<"/", "~">>}

\* The configuration file when the process starts: absent, unreadable, or
\* readable with or without an output key.
ConfigFilesAtStartup ==
    {[home |-> h, kind |-> k, content |-> c, kindAtStartup |-> k,
      contentAtStartup |-> c, writes |-> 0, reads |-> 0] :
        h \in HomeDirs, k \in {"absent", "unreadable"}, c \in {EmptyConfig}}
    \cup
    {[home |-> h, kind |-> "readable", content |-> c, kindAtStartup |-> "readable",
      contentAtStartup |-> c, writes |-> 0, reads |-> 0] :
        h \in HomeDirs,
        c \in {[DEFAULT_CONFIG EXCEPT !.output = p] : p \in Paths \cup {Undefined}}}

\* The command line of a download by id, with or without an output path.
ConfigArgv ==
    [channels : {FALSE},
     query : {Undefined},
     download : {<<"i", "d">>},
     interactive : {FALSE},
     channel : {Undefined},
     exclude : {Undefined},
     quality : {Undefined},
     output : {Undefined, <<"~">>},
     limit : {Undefined},
     debug : {FALSE}]

ConfigEntries == {Entry(ARD, UrlHd, Undefined, Undefined)}

\* The process before the module body has run.
InitConfig ==
    /\ options \in ConfigArgv
    /\ conn = "none"
    /\ attempts = 0
    /\ nconn = 0
    /\ inst = [i \in Runs |-> IdleRun]
    /\ exited = FALSE
    /\ exitCode = 0
    /\ configFile \in ConfigFilesAtStartup

ConfigStep(i) ==
    \/ EntriesReply(i, ConfigEntries)
    \/ FilenamePromptAnswer(i, FilenameTexts)
    \/ WhichClosed(i)
    \/ ActionPromptAnswer(i)
    \/ PlayerClosed(i)
    \/ FetchReply(i, {Null})
    \/ TransferEnd(i)

NextConfig ==
    \/ ModuleLoad
    \/ ConnectOk
    \/ SIGINT
    \/ \E i \in Runs : ConfigStep(i)

SpecConfig == InitConfig /\ [][NextConfig]_vars

\* ------------------------------------------------------------- claims
hasNoUrl(video) ==
    /\ ~Truthy(video.url_video_hd)
    /\ ~Truthy(video.url_video)
    /\ ~Truthy(video.url_video_low)

\* C1: within one invocation at most one top-level action (list channels,
\* search, download by id, interactive) is ever started, whatever connect,
\* disconnect and reconnect events the channel delivers.
C1_OneActionPerInvocation ==
    Cardinality({i \in Runs : inst[i].action # "none"}) <= 1

\* The steps that are forced to happen once they can: the transport settles
\* an open attempt, a request or a prompt is answered, a subprocess or a
\* stream ends, a process with nothing pending ends.
Progress ==
    \/ ConnectOk
    \/ ConnectFail
    \/ EventLoopEmpty
    \/ \E i \in Runs : RunStep(i)

\* C2: every invocation reaches Terminated: as long as the process has not
\* exited, a step that leads on towards the exit is pending (an open
\* attempt, a request, a prompt, a subprocess, a stream).
C2_EveryInvocationTerminates == exited \/ ENABLED Progress

\* C2 as a liveness property of FairSpec: the process eventually exits.
C2_EventuallyExits == <>exited

\* C3: when the backend answers a search query with an error payload, the
\* query was sent once and the process has exited with code 1, whether the
\* search came from the query flag or from interactive mode.
C3_SearchErrorExitsOne ==
    \A i \in Runs :
        inst[i].reply = "err" =>
            /\ inst[i].nEmits = 1
            /\ exited
            /\ exitCode = 1

\* C5: a failed or malformed channel-list call aborts the dependent action
\* with a non-zero exit: list-channels does not end as a normal completion,
\* and the channel-selection step does not go on into a search or an
\* interactive action.
C5_ChannelFailureAborts ==
    \A i \in Runs :
        /\ inst[i].listed = "failed" => (exited /\ exitCode # 0)
        /\ inst[i].chanSel \in {"failed", "malformed"} =>
               inst[i].action \notin {"search", "interactive"}

\* C9: for an entry with none of the three quality URLs downloadVideo is
\* never entered: no filename prompt, no player probe, no play/download
\* prompt, no fetch and no destination file.
C9_NoUrlAbortsDownload ==
    \A i \in Runs :
        (inst[i].video # NoEntry /\ hasNoUrl(inst[i].video)) =>
            /\ ~inst[i].entered
            /\ ~inst[i].filenamePrompted
            /\ ~inst[i].probed
            /\ ~inst[i].actionPrompted
            /\ inst[i].nAsset = 0
            /\ ~inst[i].fileOpened

\* C10: when the channel cannot be established, the transport gives up after
\* reconnectionAttempts attempts, no action is ever started, and the process
\* ends with exit code 1.
C10_ExhaustedReconnectIsFatal ==
    (conn = "closed" /\ nconn = 0) =>
        /\ attempts = reconnectionAttempts
        /\ \A i \in Runs : inst[i].action = "none"
        /\ exited => exitCode = 1

\* C4: a download by id whose entry lookup returned an error field or an
\* empty result set made one HTTP call, the process has exited with code 1,
\* and no quality selection, filename prompt, player probe, player or file
\* transfer was started for it.
C4_FailedLookupExitsOne ==
    \A i \in Runs :
        inst[i].lookup \in {"err", "empty"} =>
            /\ inst[i].nEntries + inst[i].nAsset = 1
            /\ exited
            /\ exitCode = 1
            /\ inst[i].video = NoEntry
            /\ inst[i].quality = NoQuality
            /\ ~inst[i].entered
            /\ ~inst[i].filenamePrompted
            /\ ~inst[i].probed
            /\ ~inst[i].played
            /\ ~inst[i].fileOpened

\* C4 witness: a lookup that found no entry, while another lookup of the
\* same invocation is still under way.
C4_Witness ==
    \E i, j \in Runs :
        /\ inst[i].lookup = "empty"
        /\ inst[i].action = "download"
        /\ inst[j].pc = "awaitEntries"
        /\ exited

\* The channel names the exclusion option of the run stands for.
ExcludedNames ==
    IF options.exclude = Undefined THEN {}
    ELSE (CHOOSE c \in ExcludeCases : c.text = options.exclude).names

\* R with the entries whose channel is in E removed, order kept.
RECURSIVE Without(_, _)
Without(R, E) ==
    IF R = <<>> THEN <<>>
    ELSE IF Head(R).channel \in E THEN Without(Tail(R), E)
    ELSE <<Head(R)>> \o Without(Tail(R), E)

\* C6 as stated: the resolved sequence is R without the excluded channels,
\* and the excluded count |R| - |resolved| is reported, whatever its value.
C6_ExcludedCountAlwaysReported ==
    \A i \in Runs :
        inst[i].reply = "ok" =>
            /\ inst[i].results = Without(inst[i].raw, ExcludedNames)
            /\ inst[i].excludedMsg = <<Len(inst[i].raw) - Len(inst[i].results)>>

\* C6 amended: the resolved sequence is R without the excluded channels, in
\* R's order; the excluded count |R| - |resolved| is reported on the console
\* exactly when it is greater than 0; in debug mode with an exclusion list
\* the debug line carries the count, 0 included.
C6_ExcludedCountReportedWhenPositive ==
    \A i \in Runs :
        inst[i].reply = "ok" =>
            LET count == Len(inst[i].raw) - Len(inst[i].results)
            IN  /\ inst[i].results = Without(inst[i].raw, ExcludedNames)
                /\ count > 0 => inst[i].excludedMsg = <<count>>
                /\ count = 0 => inst[i].excludedMsg = <<>>
                /\ (options.debug /\ ExcludedNames # {}) =>
                       inst[i].excludedDbg = <<count>>
                /\ ~(options.debug /\ ExcludedNames # {}) =>
                       inst[i].excludedDbg = <<>>

\* C6 witness: an exclusion list whose second name needs trimming removes
\* one of two results and keeps the other.
C6_Witness ==
    \E i \in Runs :
        /\ inst[i].reply = "ok"
        /\ options.exclude = <<"Z", "D", "F", ",", " ", "A", "R", "D">>
        /\ Len(inst[i].raw) = 2
        /\ inst[i].raw[1].channel = ARD
        /\ inst[i].results = <<inst[i].raw[2]>>
        /\ inst[i].excludedMsg = <<1>>

\* C7: every entry delivered for a search with a non-empty channel filter has
\* that channel name.
C7_ResultsHaveFilterChannel ==
    \A i \in Runs :
        (inst[i].reply = "ok" /\ Len(inst[i].sent.queries) = 2) =>
            \A k \in 1..Len(inst[i].results) :
                inst[i].results[k].channel = inst[i].sent.queries[2].query

\* The entry field the quality option of the run prefers.
PreferredField ==
    (CHOOSE c \in QualityCases : c.text = options.quality).field

TierOrder == <<"url_video_hd", "url_video", "url_video_low">>

\* The first tier, in the order high, medium, low, whose URL is non-empty.
FirstAvailable(video) ==
    LET avail == {k \in 1..Len(TierOrder) : Truthy(Field(video, TierOrder[k]))}
    IN  IF avail = {} THEN NoQuality
        ELSE TierOrder[CHOOSE k \in avail : \A h \in avail : k <= h]

\* C8: the tier selected for an entry is the preferred tier when its URL is
\* non-empty, else the first tier with a non-empty URL in the order high,
\* medium, low, and none exactly when all three URLs are empty; download by
\* id and interactive mode select the same tier.
C8_QualitySelection ==
    \A i \in Runs :
        inst[i].entered =>
            LET video == inst[i].video
                preferredHere ==
                    PreferredField # NoQuality /\ Truthy(Field(video, PreferredField))
            IN  /\ preferredHere => inst[i].quality = PreferredField
                /\ ~preferredHere => inst[i].quality = FirstAvailable(video)
                /\ inst[i].quality = NoQuality <=> hasNoUrl(video)
                /\ inst[i].url = Field(video, inst[i].quality)
                /\ selectQualityById(video, options.quality)
                       = selectQualityInteractive(video, options.quality)

\* C8 witness: interactive mode, medium preferred, the entry has only a
\* high-quality URL (its medium URL is the empty string): high is selected.
C8_Witness ==
    \E i \in Runs :
        /\ inst[i].entered
        /\ inst[i].action = "interactive"
        /\ options.quality = MEDIUM
        /\ inst[i].video.url_video = <<>>
        /\ inst[i].video.url_video_hd = UrlHd
        /\ inst[i].quality = "url_video_hd"

BytesBefore(log, k) == IF k = 1 THEN 0 ELSE log[k - 1].bytes

\* C15: with an unknown total size (header absent, zero or unparsable) no
\* percentage progress call is made, and every chunk that makes the byte
\* count reach or cross a further multiple of 10 MiB makes a progress call.
C15_UnknownSizeEveryTenMiB ==
    \A i \in Runs :
        (inst[i].status = "ok" /\ inst[i].totalSize \in {NaN, 0}) =>
            \A k \in 1..Len(inst[i].log) :
                /\ inst[i].log[k].event # "percent"
                /\ (inst[i].log[k].bytes \div (10 * MiB)
                        > BytesBefore(inst[i].log, k) \div (10 * MiB))
                       => inst[i].log[k].event = "size"

\* The last chunk up to k of a log that made a progress call, 0 for none.
LastEvent(log, k) ==
    LET E == {j \in 1..k : log[j].event # "none"}
    IN  IF E = {} THEN 0 ELSE CHOOSE j \in E : \A h \in E : h <= j

\* C16: with a known total size, after each chunk the completed percentage
\* is less than 10 points above the percentage at the most recent progress
\* call (0 before the first), in rounded percents and in exact ones, and no
\* size-based progress call is made.
C16_KnownSizeEveryTenPercent ==
    \A i \in Runs :
        (inst[i].status = "ok" /\ inst[i].totalSize \notin {NaN, 0}) =>
            \A k \in 1..Len(inst[i].log) :
                LET log == inst[i].log
                    total == inst[i].totalSize
                    e == LastEvent(log, k)
                    bytesAtEvent == IF e = 0 THEN 0 ELSE log[e].bytes
                    roundedAt(b) == (200 * b + total) \div (2 * total)
                IN  /\ roundedAt(log[k].bytes) - roundedAt(bytesAtEvent) < 10
                    /\ 100 * (log[k].bytes - bytesAtEvent) < 10 * total
                    /\ log[k].event # "size"

\* C16 witness: 40 bytes announced; 4 bytes (10%) make a call, 1 more byte
\* (13%) makes none, 6 more (28%) make the next.
C16_Witness ==
    \E i \in Runs :
        /\ inst[i].totalSize = 40
        /\ Len(inst[i].log) = 3
        /\ inst[i].log[1] = [bytes |-> 4, event |-> "percent"]
        /\ inst[i].log[2] = [bytes |-> 5, event |-> "none"]
        /\ inst[i].log[3] = [bytes |-> 11, event |-> "percent"]

\* C18: inside one downloadVideo the destination file is opened only when
\* the operator chose neither Play nor Cancel and a response with a success
\* status came; Play, Cancel and a non-success status leave the destination
\* untouched and start no transfer; Play and a transfer never both happen.
C18_FileOnlyAfterOkResponse ==
    \A i \in Runs :
        LET r == inst[i]
        IN  /\ r.fileOpened => (r.choice \notin {"Play", "Cancel"} /\ r.status = "ok")
            /\ (r.choice \in {"Play", "Cancel"} \/ r.status \in {"notOk", "throw"}) =>
                   (~r.fileOpened /\ r.downloadedBytes = 0 /\ r.log = <<>>)
            /\ r.choice \in {"Play", "Cancel"} => (r.nAsset = 0 /\ r.status = "none")
            /\ r.played => (r.choice = "Play" /\ ~r.fileOpened /\ r.nAsset = 0)

\* C18 witness: Download chosen, the response has no success status,
\* downloadVideo has returned without a file.
C18_Witness ==
    \E i \in Runs :
        /\ inst[i].choice = "Download"
        /\ inst[i].status = "notOk"
        /\ inst[i].pc = "returned"
        /\ ~inst[i].fileOpened

\* The action the flags stand for, in the priority list, search, download,
\* interactive.
ExpectedAction ==
    CASE options.channels -> "list"
      [] ~options.channels /\ options.query \notin {Undefined, <<>>} -> "search"
      [] ~options.channels /\ options.query \in {Undefined, <<>>}
           /\ options.download \notin {Undefined, <<>>} -> "download"
      [] OTHER -> "interactive"

\* C12: the action a run of the connect handler starts is the one the flags
\* stand for in the fixed priority (interactive when no action flag, or only
\* an empty query or id, is given); no action is started before the channel
\* is resolved; the channel-selection step is entered only when the channel
\* flag was given without a value.
C12_DispatchPriority ==
    /\ [](\A i \in Runs :
            /\ inst[i].action # "none" => inst[i].action = ExpectedAction
            /\ inst[i].pc \in {"awaitChannelsForPrompt", "promptChannel"} =>
                   inst[i].action = "none"
            /\ inst[i].pc \notin {"idle", "awaitChannelsForPrompt", "promptChannel"} =>
                   inst[i].action # "none")
    /\ [][\A i \in Runs :
            (inst[i].pc = "idle" /\ inst'[i].pc # "idle") =>
                (inst'[i].pc = "awaitChannelsForPrompt" <=> options.channel = True)]_vars

\* C12 witness: query and id both empty, no interactive flag: interactive
\* mode, entered after the channel prompt.
C12_Witness ==
    \E i \in Runs :
        /\ options.query = <<>>
        /\ options.download = <<>>
        /\ ~options.interactive
        /\ inst[i].chanSel = "ok"
        /\ inst[i].action = "interactive"

\* The size property the limit option of the run stands for.
ExpectedSize ==
    (CHOOSE c \in LimitCases : c.text = options.limit).size

\* C17: every query emitted has as its first clause the non-empty text on
\* the fields title and topic; a second clause, on the field channel with
\* the channel filter, exactly when the filter is a non-empty string;
\* ordering by timestamp descending; a size property exactly when a
\* non-empty limit was given (the number the limit text starts with); it
\* never has zero clauses or an empty text.
C17_QueryShape ==
    \A i \in Runs :
        inst[i].sent # NoQuery =>
            LET q == inst[i].sent
                filtered == options.channel \notin {Undefined, Null, <<>>}
            IN  /\ Len(q.queries) = IF filtered THEN 2 ELSE 1
                /\ q.queries[1].fields = <<"title", "topic">>
                /\ q.queries[1].query # <<>>
                /\ inst[i].action = "interactive" => q.queries[1].query \in PromptTexts
                /\ inst[i].action = "search" => q.queries[1].query = options.query
                /\ filtered =>
                       q.queries[2] = [fields |-> <<"channel">>, query |-> options.channel]
                /\ q.sortBy = "timestamp"
                /\ q.sortOrder = "desc"
                /\ q.size = ExpectedSize
                /\ q.size # <<>> <=> options.limit \notin {Undefined, <<>>}

\* C17 witness: interactive mode, ALL picked at the channel prompt, limit
\* 12: one clause with the text typed, size 12.
C17_Witness ==
    \E i \in Runs :
        /\ inst[i].action = "interactive"
        /\ inst[i].chanSel = "ok"
        /\ options.channel = Null
        /\ inst[i].sent.queries = <<[fields |-> <<"title", "topic">>, query |-> <<"q">>]>>
        /\ inst[i].sent.size = <<12>>

\* C13: the preferences file is written at most once and only when it did
\* not exist at startup; a file that existed (parsable or not) is still the
\* file it was; it is read at most once; once the module body has run, no
\* step touches it.
C13_PreferencesWrittenOnceIfAbsent ==
    /\ [](/\ configFile.writes <= 1
          /\ configFile.reads <= 1
          /\ configFile.writes = 1 => configFile.kindAtStartup = "absent"
          /\ configFile.kindAtStartup # "absent" =>
                 /\ configFile.writes = 0
                 /\ configFile.kind = configFile.kindAtStartup
                 /\ configFile.content = configFile.contentAtStartup
          /\ conn = "none" => (configFile.writes = 0 /\ configFile.reads = 0))
    /\ [][conn # "none" => configFile' = configFile]_vars

\* C13 witness: no file at startup, the default file written once and never
\* read, a download under way.
C13_Witness ==
    \E i \in Runs :
        /\ configFile.kindAtStartup = "absent"
        /\ configFile.kind = "readable"
        /\ configFile.writes = 1
        /\ configFile.reads = 0
        /\ inst[i].pc = "transferring"

\* C14: expanding an expanded path changes nothing, and an absolute path is
\* returned unchanged: for the output path of the configuration file, which
\* loadConfig expands and downloadVideo expands again, and for the path
\* downloadVideo was given.
C14_TildeExpansionIdempotent ==
    /\ \A p \in {configFile.contentAtStartup.output, options.output} :
          /\ expandTildePath(expandTildePath(p, homedir), homedir)
                 = expandTildePath(p, homedir)
          /\ isAbsolute(p) => expandTildePath(p, homedir) = p
    /\ \A i \in Runs :
          LET f == inst[i].filename
          IN  /\ isAbsolute(f.original) => f.expandedPath = f.original
              /\ (configFile.kindAtStartup = "readable"
                    /\ f.original =
                         expandTildePath(configFile.contentAtStartup.output, homedir))
                   => f.expandedPath = f.original

\* C14 witness: output = ~/a in the configuration file, expanded at startup
\* and handed to downloadVideo, whose expansion leaves it as it is.
C14_Witness ==
    \E i \in Runs :
        /\ configFile.contentAtStartup.output = <<"~", "/", "a">>
        /\ homedir = HOME
        /\ options.output = <<"/", "h", "/", "a">>
        /\ inst[i].filename.original = <<"/", "h", "/", "a">>
        /\ inst[i].filename.expandedPath = <<"/", "h", "/", "a">>
        /\ ~inst[i].filename.underCwd

====
